---- MODULE Spec2Model ----
(***************************************************************************)
(* Model of the authentication gateway of the Workers + Scalekit TODO app: *)
(*   - POST /api/auth/callback  (src/api/index.ts, exchangeCodeForToken)   *)
(*   - validateScalekitToken and the two middlewares (src/api/lib/auth.ts) *)
(*                                                                         *)
(* JSON values: a string field is Absent (undefined), the empty string or  *)
(* a non-empty string; an optional number is <<>> (absent) or <<n>>.       *)
(* Messages are sequences of strings (template literals keep their parts). *)
(* The KV namespace TODOS is modelled as a store whose reads see the       *)
(* latest write and whose keys vanish when their expirationTtl has passed. *)
(***************************************************************************)
EXTENDS Integers, Sequences, FiniteSets, TLC

\* ---------------------------------------------------------------- bounds
MaxCb == 2          \* callback requests handled (possibly concurrently)
MaxBr == 2          \* bearer-gated requests in flight at once
MaxEffectRuns == 3  \* runs of the effect of one mounted Authenticate
MaxTime == 400      \* the clock stops advancing here
TickStep == 200     \* seconds per clock step

\* ------------------------------------------------------ program constants
MarkerTtl == 300            \* expirationTtl of the processed-code marker
DefaultExpiresIn == 3600    \* tokenData.expires_in || 3600
CookieDefaultMaxAge == 604800   \* 60 * 60 * 24 * 7

Absent == "undefined"
Empty == ""

\* JavaScript truthiness of a string-or-undefined value
Truthy(v) == v \notin {Absent, Empty}

\* JavaScript truthiness of an optional number
TruthyNum(n) == Len(n) = 1 /\ n[1] # 0

\* a || b for string-or-undefined values
Or(a, b) == IF Truthy(a) THEN a ELSE b

\* a || b where a is an optional number and b a number
OrNum(n, d) == IF TruthyNum(n) THEN n[1] ELSE d

Codes == {"abc123", "xyz789"}

\* request bodies of POST /api/auth/callback: c.req.json() throws, or yields
\* null, or an object whose code is missing, empty or a code
CallbackBodies ==
    {[parses |-> FALSE, object |-> FALSE, code |-> Absent],
     [parses |-> TRUE, object |-> FALSE, code |-> Absent]}
    \cup {[parses |-> TRUE, object |-> TRUE, code |-> c] : c \in Codes \cup {Absent, Empty}}

NoRequestBody == [parses |-> FALSE, object |-> FALSE, code |-> Absent]

\* ------------------------------------------------------- getTokenEndpoint
DefaultEndpoint == "env/oauth/token"
PublishedEndpoint == "published/token"

\* responses to the discovery fetch: it throws, is non-2xx, or is 2xx with a
\* body that does not parse or a document with or without token_endpoint
DiscoveryResps ==
    {[kind |-> "throw", token_endpoint |-> Absent],
     [kind |-> "status", token_endpoint |-> Absent],
     [kind |-> "badjson", token_endpoint |-> Absent],
     [kind |-> "ok", token_endpoint |-> Absent],
     [kind |-> "ok", token_endpoint |-> Empty],
     [kind |-> "ok", token_endpoint |-> PublishedEndpoint]}

\* getTokenEndpoint without the fallback to the standard path
getTokenEndpointNoFallback(d) == d.token_endpoint

\* the discovery responses the concurrent specification draws from: one for
\* each endpoint that can result
SomeDiscoveryResps ==
    {d \in DiscoveryResps : d.kind = "throw" \/ Truthy(d.token_endpoint)}

\* auth.ts 184-204
getTokenEndpoint(d) ==
    IF d.kind = "ok" /\ Truthy(d.token_endpoint)
    THEN d.token_endpoint
    ELSE DefaultEndpoint

\* --------------------------------------------------- exchangeCodeForToken
NoTokenData ==
    [session_id |-> Absent, session_token |-> Absent,
     access_token |-> Absent, id_token |-> Absent, expires_in |-> <<>>]

\* every combination of the four token fields, with and without expires_in
AllTokenData ==
    [session_id : {Absent, "sid"}, session_token : {Absent, "stok"},
     access_token : {Absent, "atok"}, id_token : {Absent, "idtok"},
     expires_in : {<<>>, <<7200>>}]

\* bodies of a non-2xx token response: text that is not JSON, or JSON whose
\* value is an object, null or a scalar
ErrorBodies ==
    {[json |-> FALSE, shape |-> "text", text |-> "Bad Gateway",
      error_description |-> Absent, error |-> Absent],
     [json |-> FALSE, shape |-> "text", text |-> Empty,
      error_description |-> Absent, error |-> Absent],
     [json |-> TRUE, shape |-> "object", text |-> "{...}",
      error_description |-> "code expired", error |-> "invalid_grant"],
     [json |-> TRUE, shape |-> "object", text |-> "{...}",
      error_description |-> Empty, error |-> "invalid_grant"],
     [json |-> TRUE, shape |-> "object", text |-> "{...}",
      error_description |-> Absent, error |-> "invalid_grant"],
     [json |-> TRUE, shape |-> "object", text |-> "{...}",
      error_description |-> Absent, error |-> Absent],
     [json |-> TRUE, shape |-> "scalar", text |-> "503",
      error_description |-> Absent, error |-> Absent],
     [json |-> TRUE, shape |-> "null", text |-> "null",
      error_description |-> Absent, error |-> Absent]}

TokenRespOf(kind, data, body) == [kind |-> kind, data |-> data, body |-> body]

NoErrorBody ==
    [json |-> FALSE, shape |-> "text", text |-> Empty,
     error_description |-> Absent, error |-> Absent]

AllTokenResps ==
    {TokenRespOf("throw", NoTokenData, NoErrorBody),
     TokenRespOf("badjson", NoTokenData, NoErrorBody)}
    \cup {TokenRespOf("status", NoTokenData, b) : b \in ErrorBodies}
    \cup {TokenRespOf("ok", d, NoErrorBody) : d \in AllTokenData}

\* the responses the concurrent specification draws from
TokenResps ==
    {t \in AllTokenResps :
        \/ t.kind \in {"throw", "badjson"}
        \/ t.kind = "status" /\ Truthy(t.body.error_description)
        \/ /\ t.kind = "ok"
           /\ t.data \in {NoTokenData,
                          [NoTokenData EXCEPT !.access_token = "atok"],
                          [NoTokenData EXCEPT !.session_id = "sid", !.id_token = "idtok",
                                              !.expires_in = <<7200>>]}}

\* errorMessage falling back to the raw body text
errorMessageRawText(b) ==
    LET errorData == IF b.json THEN b
                     ELSE [b EXCEPT !.error = b.text]
    IN Or(Or(errorData.error_description, errorData.error), b.text)

\* auth.ts 235-252: the message of a non-2xx token response
errorMessage(b) ==
    LET errorData == IF b.json THEN b
                     ELSE [b EXCEPT !.error = b.text]
    IN Or(Or(errorData.error_description, errorData.error), "Token exchange failed")

NoTokens ==
    [access_token |-> Absent, id_token |-> Absent, expires_in |-> 0, session_id |-> Absent]

\* auth.ts 226-288: the outcome of the grant request, given its response
exchangeCodeForToken(t) ==
    IF t.kind = "throw"
    THEN [ok |-> FALSE, message |-> <<"fetch failed">>, tokens |-> NoTokens]
    ELSE IF t.kind = "status" /\ t.body.shape = "null"
    THEN [ok |-> FALSE,
          message |-> <<"Cannot read properties of null (reading 'error_description')">>,
          tokens |-> NoTokens]
    ELSE IF t.kind = "status"
    THEN [ok |-> FALSE, message |-> <<"Token exchange failed: ", errorMessage(t.body)>>,
          tokens |-> NoTokens]
    ELSE IF t.kind = "badjson"
    THEN [ok |-> FALSE, message |-> <<"Unexpected token">>, tokens |-> NoTokens]
    ELSE LET d == t.data
             sessionToken == Or(Or(Or(d.session_id, d.session_token), d.access_token), d.id_token)
         IN IF ~Truthy(sessionToken)
            THEN [ok |-> FALSE,
                  message |-> <<"Token exchange failed: No token or session ID in response">>,
                  tokens |-> NoTokens]
            ELSE [ok |-> TRUE, message |-> <<>>,
                  tokens |-> [access_token |-> sessionToken,
                              id_token |-> d.id_token,
                              expires_in |-> OrNum(d.expires_in, DefaultExpiresIn),
                              session_id |-> d.session_id]]

\* ------------------------------------------------------------------ state
VARIABLES
    now,    \* wall-clock time in seconds
    kv,     \* TODOS: code -> expiry time of the key code_<code>, or 0
    cb,     \* the POST /api/auth/callback requests
    rq,     \* the request passing through one of the two middlewares
    env,    \* c.env.SCALEKIT_ENVIRONMENT_URL, the configured base URL
    ds,     \* the request to one of the two metadata routes
    served, \* origin -> the protected-resource documents served to it so far
    hist,   \* the last session a logout followed: its token, what the
            \* authorization server answered for it, and the identity it gave
    br,     \* the bearer-gated requests in flight, each with the props of
            \* its own execution context
    ui      \* the Authenticate component of the browser and its localStorage

cbVars == <<now, kv, cb>>
auxVars == <<env, ds, served, hist, br, ui>>

NoCookie == [set |-> FALSE, value |-> Absent, maxAge |-> 0]
NoBody == [accessToken |-> Absent, idToken |-> Absent, expiresIn |-> 0]

\* no response of the discovery fetch / of the grant request yet
NoDiscoveryResp == [kind |-> "none", token_endpoint |-> Absent]
NoTokenResp == TokenRespOf("none", NoTokenData, NoErrorBody)

\* dresp is the discovery response while the grant request is in flight,
\* resp the response of the grant request
IdleCb ==
    [pc |-> "idle", req |-> NoRequestBody, code |-> Absent, prior |-> {}, putAt |-> -1,
     calls |-> <<>>, endpoint |-> Absent, dresp |-> NoDiscoveryResp,
     resp |-> NoTokenResp,
     status |-> 0, error |-> <<>>, cookie |-> NoCookie, body |-> NoBody]

\* kvGet on a store whose keys never expire
kvGetNoExpiry(store, code, t) == IF store[code] > 0 THEN "processed" ELSE Absent

\* kvGet with a marker that lives 60 seconds instead of MarkerTtl
kvGetShortTtl(store, code, t) ==
    IF store[code] - MarkerTtl + 60 > t THEN "processed" ELSE Absent

\* TODOS.get(codeKey): the value, unless the key is missing or has expired
kvGet(store, code, t) == IF store[code] > t THEN "processed" ELSE Absent

\* Reply400 answering with the catch block's generic message
Reply400Generic(r, msg) ==
    [r EXCEPT !.pc = "done", !.status = 400, !.error = <<"Token exchange failed">>,
              !.endpoint = Absent, !.dresp = NoDiscoveryResp]

\* c.json({error}, 400)
Reply400(r, msg) ==
    [r EXCEPT !.pc = "done", !.status = 400, !.error = msg, !.endpoint = Absent,
              !.dresp = NoDiscoveryResp]

InitCb ==
    /\ now = 0
    /\ kv = [c \in Codes |-> 0]
    /\ cb = [r \in 1..MaxCb |-> IdleCb]

\* time passes
Tick ==
    /\ now + TickStep <= MaxTime
    /\ now' = now + TickStep
    /\ UNCHANGED <<kv, cb, rq, auxVars>>

\* CallbackStart marking the request as processed before it checks the code
CallbackStartMarksFirst(r, b) ==
    /\ cb[r].pc = "idle"
    /\ \A q \in 1..(r - 1) : cb[q].pc # "idle"
    /\ LET me == [cb[r] EXCEPT !.req = b,
                                !.prior = {q \in 1..MaxCb : cb[q].pc = "done"}]
       IN /\ cb' = [cb EXCEPT ![r] =
                IF ~b.parses THEN Reply400(me, <<"Unexpected end of JSON input">>)
                ELSE IF ~b.object
                THEN Reply400(me, <<"Cannot destructure property 'code' of null">>)
                ELSE IF ~Truthy(b.code)
                THEN Reply400([me EXCEPT !.putAt = now],
                              <<"Authorization code is required">>)
                ELSE [me EXCEPT !.pc = "get", !.code = b.code]]
    /\ UNCHANGED <<now, kv, rq, auxVars>>

\* index.ts 52-62: the handler parses the body, checks the code and issues
\* the read of the marker
CallbackStart(r, b) ==
    /\ cb[r].pc = "idle"
    /\ \A q \in 1..(r - 1) : cb[q].pc # "idle"    \* slots are taken in order
    /\ LET me == [cb[r] EXCEPT !.req = b,
                                !.prior = {q \in 1..MaxCb : cb[q].pc = "done"}]
       IN cb' = [cb EXCEPT ![r] =
            IF ~b.parses THEN Reply400(me, <<"Unexpected end of JSON input">>)
            ELSE IF ~b.object
            THEN Reply400(me, <<"Cannot destructure property 'code' of null">>)
            ELSE IF ~Truthy(b.code)
            THEN Reply400(me, <<"Authorization code is required">>)
            ELSE [me EXCEPT !.pc = "get", !.code = b.code]]
    /\ UNCHANGED <<now, kv, rq, auxVars>>

\* index.ts 62-69: the read is served; a marker ends the request, otherwise
\* the write of the marker is issued
CallbackGet(r) ==
    /\ cb[r].pc = "get"
    /\ LET processedCode == kvGet(kv, cb[r].code, now)
           me == cb[r]
       IN cb' = [cb EXCEPT ![r] =
            IF Truthy(processedCode)
            THEN Reply400(me, <<"Authorization code already used">>)
            ELSE [me EXCEPT !.pc = "put"]]
    /\ UNCHANGED <<now, kv, rq, auxVars>>

\* CallbackPut whose write never lands
CallbackPutNoMarker(r) ==
    /\ cb[r].pc = "put"
    /\ cb' = [cb EXCEPT ![r] =
            [@ EXCEPT !.pc = "disc", !.putAt = now,
                      !.calls = Append(@, "discovery")]]
    /\ UNCHANGED <<now, kv, rq, auxVars>>

\* CallbackPut as a conditional write that fails when a marker is present
CallbackPutConditional(r) ==
    /\ cb[r].pc = "put"
    /\ IF kv[cb[r].code] > now
       THEN /\ cb' = [cb EXCEPT ![r] =
                    Reply400(@, <<"Authorization code already used">>)]
            /\ kv' = kv
       ELSE /\ kv' = [kv EXCEPT ![cb[r].code] = now + MarkerTtl]
            /\ cb' = [cb EXCEPT ![r] =
                    [@ EXCEPT !.pc = "disc", !.putAt = now,
                              !.calls = Append(@, "discovery")]]
    /\ UNCHANGED <<now, rq, auxVars>>

\* index.ts 69-73, auth.ts 184-188: the marker is written with its TTL, then
\* exchangeCodeForToken starts and getTokenEndpoint fetches the discovery
\* document
CallbackPut(r) ==
    /\ cb[r].pc = "put"
    /\ kv' = [kv EXCEPT ![cb[r].code] = now + MarkerTtl]
    /\ cb' = [cb EXCEPT ![r] =
            [@ EXCEPT !.pc = "disc", !.putAt = now,
                      !.calls = Append(@, "discovery")]]
    /\ UNCHANGED <<now, rq, auxVars>>

\* CallbackDiscovery fetching the document a second time after a network error
CallbackDiscoveryRetry(r, d) ==
    /\ cb[r].pc = "disc"
    /\ cb' = [cb EXCEPT ![r] =
            IF d.kind = "throw" /\ Len(cb[r].calls) < 2
            THEN [@ EXCEPT !.calls = Append(@, "discovery")]
            ELSE [@ EXCEPT !.pc = "tok", !.endpoint = getTokenEndpoint(d), !.dresp = d,
                           !.calls = Append(@, "token")]]
    /\ UNCHANGED <<now, kv, rq, auxVars>>

\* auth.ts 188-233: the discovery fetch settles, the endpoint is resolved and
\* the grant request is POSTed to it
CallbackDiscovery(r, d) ==
    /\ cb[r].pc = "disc"
    /\ cb' = [cb EXCEPT ![r] =
            [@ EXCEPT !.pc = "tok", !.endpoint = getTokenEndpoint(d), !.dresp = d,
                      !.calls = Append(@, "token")]]
    /\ UNCHANGED <<now, kv, rq, auxVars>>

\* tokenToStore without the preference for the id_token
tokenToStoreAccessOnly(tk) == tk.access_token

\* index.ts 76: the value stored in the session cookie
tokenToStore(tk) == Or(tk.id_token, tk.access_token)

\* auth.ts 235-288, index.ts 73-96: the grant request settles; the handler
\* sets the cookie and answers 200, or answers 400 with the error's message
CallbackToken(r, t) ==
    /\ cb[r].pc = "tok"
    /\ LET tokenResponse == exchangeCodeForToken(t)
           tk == tokenResponse.tokens
           me == [cb[r] EXCEPT !.resp = t]
       IN cb' = [cb EXCEPT ![r] =
            IF ~tokenResponse.ok THEN Reply400(me, tokenResponse.message)
            ELSE [me EXCEPT !.pc = "done", !.status = 200, !.endpoint = Absent,
                    !.dresp = NoDiscoveryResp,
                    !.cookie = [set |-> TRUE, value |-> tokenToStore(tk),
                                maxAge |-> IF tk.expires_in # 0 THEN tk.expires_in
                                           ELSE CookieDefaultMaxAge],
                    !.body = [accessToken |-> tk.access_token,
                              idToken |-> tk.id_token,
                              expiresIn |-> tk.expires_in]]]
    /\ UNCHANGED <<now, kv, rq, auxVars>>

\* ======================================================= lib/auth.ts
AuthClock == 1000   \* Date.now() / 1000 while the gated requests are handled

\* Decoded JSON objects (JWT payloads, session-verify and user-info bodies).
\* user_dot_id is data.user.id and session_dot_user_id is data.session.user_id.
NoData ==
    [exp |-> <<>>, sub |-> Absent, user_id |-> Absent, userId |-> Absent,
     email |-> Absent, id |-> Absent, user_dot_id |-> Absent,
     session_dot_user_id |-> Absent]

Opt(v) == {Absent, Empty, v}

\* JWT payloads: exp missing, 0, in the past, now or in the future
Payloads ==
    {[NoData EXCEPT !.exp = e, !.sub = s, !.user_id = u, !.userId = w, !.email = m] :
        e \in {<<>>, <<0>>, <<AuthClock - 1>>, <<AuthClock>>, <<AuthClock + 1>>},
        s \in Opt("jwt-sub"), u \in Opt("jwt-user_id"),
        w \in Opt("jwt-userId"), m \in Opt("jwt@email")}

VerifyBodies ==
    {[NoData EXCEPT !.user_id = u, !.user_dot_id = n, !.sub = s, !.userId = w,
                    !.session_dot_user_id = x] :
        u \in Opt("ses-user_id"), n \in Opt("ses-user.id"), s \in Opt("ses-sub"),
        w \in Opt("ses-userId"), x \in Opt("ses-session.user_id")}

UserinfoBodies ==
    {[NoData EXCEPT !.sub = s, !.user_id = u, !.id = i, !.email = m] :
        s \in Opt("ui-sub"), u \in Opt("ui-user_id"), i \in Opt("ui-id"),
        m \in Opt("ui@email")}

\* A credential is the sequence of its dot-separated segments; the empty
\* string is <<>>.  A segment has a lexical class and, for atob + JSON.parse,
\* a decoding: an object, a JSON null or scalar, or an error that is thrown
\* and whose message does or does not contain the text "expired".
Seg(lex, dec, payload) == [lex |-> lex, dec |-> dec, payload |-> payload]

SesDigits == Seg("ses_digits", "throws", NoData)    \* ses_12345
SesOther == Seg("ses_other", "throws", NoData)      \* ses_12a, ses_
Word == Seg("word", "throws", NoData)               \* any other dot-free text

Segments ==
    {SesDigits, SesOther, Word,
     Seg("b64", "null", NoData), Seg("b64", "scalar", NoData),
     Seg("b64", "throws_expired", NoData)}
    \cup {Seg("b64", "object", p) : p \in Payloads}

Tokens ==
    {<<>>, <<SesDigits>>, <<SesOther>>, <<Word>>, <<Word, Word>>,
     <<Word, Seg("b64", "object", [NoData EXCEPT !.sub = "jwt-sub"]), Word, Word>>,
     <<SesDigits, Word, Word>>}
    \cup {<<Word, s, Word>> : s \in Segments}

\* isSessionId with the pattern /^ses_[a-z]+$/
isSessionIdLetters(token) == Len(token) = 1 /\ token[1].lex = "ses_other"

\* /^ses_[0-9]+$/.test(token)
isSessionId(token) == Len(token) = 1 /\ token[1].lex = "ses_digits"

\* token.split('.').length
partsLength(token) == IF token = <<>> THEN 1 ELSE Len(token)

\* { sub: userId, ...data }: the spread comes after sub
Spread(userId, data) ==
    IF data.sub # Absent THEN data ELSE [data EXCEPT !.sub = userId]

Returned(claims) == [kind |-> "return", claims |-> claims, message |-> <<>>]
Thrown(msg) == [kind |-> "throw", claims |-> NoData, message |-> msg]
FallThrough == [kind |-> "next", claims |-> NoData, message |-> <<>>]

FinalError ==
    <<"Token validation failed: Could not validate token. Token appears to be neither a session ID nor a valid JWT.">>

\* responses of the two outbound calls of the validator
RespOf(kind, data) == [kind |-> kind, data |-> data]
VerifyResps ==
    {RespOf("throw", NoData), RespOf("status", NoData), RespOf("badjson", NoData)}
    \cup {RespOf("ok", d) : d \in VerifyBodies}
UserinfoResps ==
    {RespOf("throw", NoData), RespOf("status", NoData), RespOf("badjson", NoData)}
    \cup {RespOf("ok", d) : d \in UserinfoBodies}

\* auth.ts 95-115: the session-verification strategy, given the response
verifySession(resp) ==
    IF resp.kind = "throw" THEN Thrown(<<"fetch failed">>)
    ELSE IF resp.kind = "status" THEN Thrown(<<"Session validation failed: ", "status">>)
    ELSE IF resp.kind = "badjson" THEN Thrown(<<"Unexpected token">>)
    ELSE LET data == resp.data
             userId == Or(Or(Or(Or(data.user_id, data.user_dot_id), data.sub),
                             data.userId), data.session_dot_user_id)
         IN IF ~Truthy(userId)
            THEN Thrown(<<"Session validation succeeded but no user ID found in response">>)
            ELSE Returned(Spread(userId, data))

\* payload.exp && payload.exp < Date.now() / 1000
isExpired(payload, t) == TruthyNum(payload.exp) /\ payload.exp[1] < t

\* auth.ts 121-142: the body of the try block of the JWT strategy
tryJwt(token, t) ==
    IF partsLength(token) # 3 THEN FallThrough
    ELSE LET part == token[2]
         IN IF part.dec = "throws_expired"
            THEN Thrown(<<"Unexpected token 'e', \"expired\" is not valid JSON">>)
            ELSE IF part.dec = "throws" THEN Thrown(<<"Invalid character">>)
            ELSE IF part.dec = "null"
            THEN Thrown(<<"Cannot read properties of null (reading 'exp')">>)
            ELSE LET payload == IF part.dec = "object" THEN part.payload ELSE NoData
                     userId == Or(Or(Or(payload.sub, payload.user_id), payload.userId),
                                  payload.email)
                 IN IF isExpired(payload, t) THEN Thrown(<<"Token has expired">>)
                    ELSE IF ~Truthy(userId)
                    THEN Thrown(<<"JWT token does not contain user identifier">>)
                    ELSE Returned(Spread(userId, payload))

\* error.message.includes('expired')
includesExpired(msg) ==
    msg \in {<<"Token has expired">>,
             <<"Unexpected token 'e', \"expired\" is not valid JSON">>}

\* catchJwt rethrowing every error of the JWT strategy
catchJwtRethrowAll(res) == res

\* auth.ts 143-149: the catch block of the JWT strategy
catchJwt(res) ==
    IF res.kind = "throw" /\ ~includesExpired(res.message) THEN FallThrough ELSE res

\* auth.ts 120-149: the JWT strategy
decodeJwt(token, t) == catchJwt(tryJwt(token, t))

\* auth.ts 163-178: the user-info strategy, given the response
userinfo(resp) ==
    IF resp.kind # "ok" THEN Thrown(FinalError)
    ELSE LET data == resp.data
             userId == Or(Or(Or(data.sub, data.user_id), data.id), data.email)
         IN IF Truthy(userId) THEN Returned(Spread(userId, data))
            ELSE Thrown(FinalError)

\* ------------------------------------------------- the gated routes
Origins == {"https://todo.example", "http://localhost:3000"}
SessionRoutes == {"/api/auth/validate", "/api/todos"}
BearerRoutes == {"/mcp", "/sse/message"}

\* the scalekit_session cookie of a request: missing, empty or a credential
Cookies ==
    {[present |-> FALSE, value |-> <<>>]}
    \cup {[present |-> TRUE, value |-> t] : t \in Tokens}

\* the Authorization header: missing, or its first seven characters and the
\* rest
Headers ==
    {[present |-> FALSE, prefix |-> "", rest |-> <<>>]}
    \cup {[present |-> TRUE, prefix |-> "Bearer ", rest |-> t] : t \in Tokens}
    \cup {[present |-> TRUE, prefix |-> x, rest |-> t] :
            x \in {"bearer ", "Basic dX"}, t \in {<<>>, <<SesDigits>>,
                <<Word, Seg("b64", "object", [NoData EXCEPT !.sub = "jwt-sub"]), Word>>}}

NoHeader == [present |-> FALSE, prefix |-> "", rest |-> <<>>]
NoCookieSent == [present |-> FALSE, value |-> <<>>]
NoProps == [set |-> FALSE, claims |-> NoData, accessToken |-> <<>>]
NoResult == [kind |-> "none", claims |-> NoData, message |-> <<>>]
NoResp == [kind |-> "none", data |-> NoData]
NoSeen == [userID |-> Absent, claims |-> NoData, accessToken |-> <<>>]

DiscoveryPath == "/.well-known/oauth-protected-resource"

IdleRq ==
    [pc |-> "idle", gate |-> "none", origin |-> "",
     cookie |-> NoCookieSent, header |-> NoHeader,
     token |-> <<>>, validations |-> 0, jwtTried |-> FALSE, calls |-> <<>>,
     resp |-> NoResp, result |-> NoResult, userID |-> Absent, props |-> NoProps,
     status |-> 0, message |-> "", wwwAuth |-> <<>>, setCookie |-> FALSE,
     handlerRan |-> FALSE, seen |-> NoSeen,
     success |-> FALSE, deleteCookie |-> FALSE]

\* throw new HTTPException(401, {message, res}): the 401 response, with the
\* WWW-Authenticate header of res when one is given
Deny(r, msg, www) ==
    [r EXCEPT !.pc = "done", !.status = 401, !.message = msg, !.wwwAuth = www]

\* challenge with a configured origin instead of the request's own
challengeFixedOrigin(origin) == <<"resource_metadata=", "https://todo.example", DiscoveryPath>>

\* auth.ts 43: the challenge sent when no bearer token is presented
challenge(origin) == <<"resource_metadata=", origin, DiscoveryPath>>

\* auth.ts 23 and 58-61: what each middleware stores once the validator has
\* returned, before it calls next()
Admit(r, claims) ==
    IF r.gate = "session"
    THEN [r EXCEPT !.pc = "next", !.result = Returned(claims), !.userID = claims.sub]
    ELSE [r EXCEPT !.pc = "next", !.result = Returned(claims),
                   !.props = [set |-> TRUE, claims |-> claims, accessToken |-> r.token]]

\* Reject answering with a message of its own
RejectInvalidToken(r, msg) ==
    Deny([r EXCEPT !.result = Thrown(msg)], "Invalid token", <<>>)

\* Reject logging the failure and going on to next()
RejectButContinue(r, msg) == [r EXCEPT !.pc = "next", !.result = Thrown(msg)]

\* auth.ts 24-27 and 62-65: a validator failure becomes 401 Unauthenticated
Reject(r, msg) ==
    Deny([r EXCEPT !.result = Thrown(msg)], "Unauthenticated", <<>>)

Settle(r, res) ==
    IF res.kind = "return" THEN Admit(r, res.claims) ELSE Reject(r, res.message)

\* auth.ts 74-161: validateScalekitToken up to its first await or its end
validateScalekitToken(r0, token) ==
    LET r == [r0 EXCEPT !.token = token, !.validations = @ + 1]
    IN IF isSessionId(token)
       THEN [r EXCEPT !.pc = "verify",
                      !.calls = Append(@, [to |-> "verify", credential |-> token])]
       ELSE LET j == decodeJwt(token, now)
                rj == [r EXCEPT !.jwtTried = (partsLength(token) = 3)]
            IN IF j.kind = "next"
               THEN [rj EXCEPT !.pc = "userinfo",
                               !.calls = Append(@, [to |-> "userinfo", credential |-> token])]
               ELSE Settle(rj, j)

\* auth.ts 14-22
scalekitSessionAuthMiddleware(r) ==
    IF ~r.cookie.present \/ r.cookie.value = <<>>
    THEN Deny(r, "Unauthenticated", <<>>)
    ELSE validateScalekitToken(r, r.cookie.value)

\* auth.ts 38-54
scalekitBearerTokenAuthMiddleware(r) ==
    IF ~r.header.present \/ r.header.prefix # "Bearer "
    THEN Deny(r, "Missing or invalid access token", challenge(r.origin))
    ELSE validateScalekitToken(r, r.header.rest)

\* ------------------------------------------------- the metadata routes
\* values of SCALEKIT_ENVIRONMENT_URL: the README's placeholder and the
\* environment of the deployed demo
EnvUrls ==
    {"https://your-org.scalekit.com",
     "https://devrampdemoapp-afx5w3bgaaba2.scalekit.com"}

\* the :transport? parameter of the protected-resource route
Transports == {Absent, "mcp", "sse", "other"}

\* what a client may send along; neither route reads it
Credentials == {"none", "bearer-valid", "bearer-garbage", "cookie"}

NoPrDoc ==
    [resource |-> Absent, resource_documentation |-> <<>>,
     authorization_servers |-> <<>>, bearer_methods_supported |-> <<>>,
     scopes_supported |-> <<>>]

NoAsDoc ==
    [issuer |-> Absent, authorization_endpoint |-> <<>>, token_endpoint |-> <<>>,
     registration_endpoint |-> <<>>, response_types_supported |-> <<>>,
     code_challenge_methods_supported |-> <<>>]

\* the protected-resource document naming one fixed deployment as the resource
protectedResourceFixedOrigin(origin, transport) ==
    [resource |-> "https://todo.example",
     resource_documentation |-> <<"https://todo.example", "/docs">>,
     authorization_servers |->
        << <<"https://devrampdemoapp-afx5w3bgaaba2.scalekit.com",
             "/resources/res_103555828077823247">> >>,
     bearer_methods_supported |-> <<"header">>,
     scopes_supported |-> <<>>]

\* index.ts 20-30: the protected-resource document; a URL is its base and
\* what is appended to it
protectedResource(origin, transport) ==
    [resource |-> origin,
     resource_documentation |-> <<origin, "/docs">>,
     authorization_servers |->
        << <<"https://devrampdemoapp-afx5w3bgaaba2.scalekit.com",
             "/resources/res_103555828077823247">> >>,
     bearer_methods_supported |-> <<"header">>,
     scopes_supported |-> <<>>]

\* index.ts 34-49: the authorization-server document
authorizationServer(envUrl) ==
    [issuer |-> envUrl,
     authorization_endpoint |-> <<envUrl, "/oauth/authorize">>,
     token_endpoint |-> <<envUrl, "/oauth/token">>,
     registration_endpoint |-> <<envUrl, "/oauth/register">>,
     response_types_supported |-> <<"code">>,
     code_challenge_methods_supported |-> <<"S256">>]

IdleDs ==
    [pc |-> "idle", route |-> "none", origin |-> "", transport |-> Absent,
     credential |-> "none", status |-> 0, pr |-> NoPrDoc, as |-> NoAsDoc]

NoHist == [loggedOut |-> FALSE, token |-> <<>>, resp |-> NoResp, claims |-> NoData]

\* the component is not mounted
NoUi ==
    [code |-> Absent, error |-> Absent, marker |-> FALSE, returnTo |-> FALSE,
     ref |-> FALSE, state |-> [isProcessing |-> FALSE, hasProcessed |-> FALSE],
     closure |-> [isProcessing |-> FALSE, hasProcessed |-> FALSE],
     hc |-> "none", starts |-> 0, posts |-> 0, runs |-> 0, markerSet |-> FALSE,
     failure |-> Absent, location |-> "/authenticate"]

InitAux ==
    /\ env = "https://your-org.scalekit.com"
    /\ ds = IdleDs
    /\ served = [o \in Origins |-> {}]
    /\ hist = NoHist
    /\ br = [i \in 1..MaxBr |-> IdleRq]
    /\ ui = NoUi

\* GET /.well-known/oauth-protected-resource/:transport? (index.ts 20-30)
GetProtectedResource(origin, transport, credential) ==
    /\ ds.pc = "idle"
    /\ LET doc == protectedResource(origin, transport)
       IN /\ ds' = [IdleDs EXCEPT !.pc = "done", !.route = "protected-resource",
                                  !.origin = origin, !.transport = transport,
                                  !.credential = credential, !.status = 200,
                                  !.pr = doc]
          /\ served' = [served EXCEPT ![origin] =
                            @ \cup {[transport |-> transport, doc |-> doc]}]
    /\ UNCHANGED <<cbVars, rq, env, hist, br, ui>>

\* GET /.well-known/oauth-authorization-server (index.ts 34-49)
GetAuthorizationServer(origin, credential) ==
    /\ ds.pc = "idle"
    /\ ds' = [IdleDs EXCEPT !.pc = "done", !.route = "authorization-server",
                            !.origin = origin, !.credential = credential,
                            !.status = 200, !.as = authorizationServer(env)]
    /\ UNCHANGED <<cbVars, rq, env, served, hist, br, ui>>

\* the response has been sent
DiscoveryRespond ==
    /\ ds.pc = "done"
    /\ ds' = IdleDs
    /\ UNCHANGED <<cbVars, rq, env, served, hist, br, ui>>

InitDiscovery ==
    /\ now = 0
    /\ kv = [c \in Codes |-> 0]
    /\ cb = [r \in 1..MaxCb |-> IdleCb]
    /\ rq = IdleRq
    /\ env \in EnvUrls
    /\ ds = IdleDs
    /\ served = [o \in Origins |-> {}]
    /\ hist = NoHist
    /\ br = [i \in 1..MaxBr |-> IdleRq]
    /\ ui = NoUi

NextDiscovery ==
    \/ \E o \in Origins, t \in Transports, k \in Credentials :
            GetProtectedResource(o, t, k)
    \/ \E o \in Origins, k \in Credentials : GetAuthorizationServer(o, k)
    \/ DiscoveryRespond

\* ------------------------------------- Auth.tsx: the Authenticate component
\* ui.code and ui.error are the query parameters of the page, ui.marker the
\* localStorage item auth_processed_<code>, ui.returnTo the item returnTo,
\* ui.ref processedOnceRef.current, ui.state the component's state and
\* ui.closure the state values the effect of the last render closed over.
\* ui.hc is the position of handleCallback: none, fetch (awaiting the POST),
\* json (awaiting response.json()) or done.

\* what the POST to /api/auth/callback does, and what response.json() yields
\* for a response that is not ok
FetchOutcomes == {"ok", "status", "throw"}
JsonOutcomes ==
    {[parses |-> TRUE, error |-> "Authorization code already used"],
     [parses |-> TRUE, error |-> Absent],
     [parses |-> FALSE, error |-> Absent]}

\* part_002 58-66
onLoginComplete(u) ==
    IF u.returnTo THEN [u EXCEPT !.returnTo = FALSE, !.location = "returnTo"]
    ELSE [u EXCEPT !.location = "/todoapp"]

\* part_002 151-184: handleCallback up to its first await
handleCallback(u0) ==
    LET u == [u0 EXCEPT !.starts = @ + 1,
                        !.state = [isProcessing |-> TRUE, hasProcessed |-> TRUE]]
    IN IF Truthy(u.error) THEN [u EXCEPT !.hc = "done", !.location = "/login"]
       ELSE IF ~Truthy(u.code) THEN [u EXCEPT !.hc = "done", !.location = "/login"]
       ELSE [u EXCEPT !.marker = TRUE, !.markerSet = TRUE,
                      !.code = Absent, !.error = Absent,
                      !.posts = @ + 1, !.hc = "fetch"]

\* part_002 198-205: the catch block, then the finally block
catchAndFinally(u, msg) ==
    [u EXCEPT !.failure = msg, !.marker = FALSE, !.location = "/login",
              !.state = [@ EXCEPT !.isProcessing = FALSE], !.hc = "done"]

\* the effect guarded by the state values only
RunEffectNoRef ==
    /\ ui.runs < MaxEffectRuns
    /\ LET u == [ui EXCEPT !.runs = @ + 1]
       IN ui' = IF u.closure.isProcessing \/ u.closure.hasProcessed THEN u
                ELSE IF Truthy(u.code) /\ u.marker
                THEN [u EXCEPT !.ref = TRUE, !.location = "/todoapp"]
                ELSE handleCallback([u EXCEPT !.ref = TRUE])
    /\ UNCHANGED <<cbVars, rq, env, ds, served, hist, br>>

\* part_002 136-209: one run of the effect (the mount, the second run of
\* StrictMode, a run after a change of isProcessing or hasProcessed)
RunEffect ==
    /\ ui.runs < MaxEffectRuns
    /\ LET u == [ui EXCEPT !.runs = @ + 1]
       IN ui' = IF u.ref \/ u.closure.isProcessing \/ u.closure.hasProcessed THEN u
                ELSE IF Truthy(u.code) /\ u.marker
                THEN [u EXCEPT !.ref = TRUE, !.location = "/todoapp"]
                ELSE handleCallback([u EXCEPT !.ref = TRUE])
    /\ UNCHANGED <<cbVars, rq, env, ds, served, hist, br>>

\* the component renders again with the state that was set
Render ==
    /\ ui.closure # ui.state
    /\ ui' = [ui EXCEPT !.closure = ui.state]
    /\ UNCHANGED <<cbVars, rq, env, ds, served, hist, br>>

\* part_002 178-192, 198-205: the POST settles
FetchSettles(outcome) ==
    /\ ui.hc = "fetch"
    /\ ui' = IF outcome = "ok"
             THEN [onLoginComplete([ui EXCEPT !.marker = FALSE])
                      EXCEPT !.state = [@ EXCEPT !.isProcessing = FALSE], !.hc = "done"]
             ELSE IF outcome = "status" THEN [ui EXCEPT !.hc = "json"]
             ELSE catchAndFinally(ui, "Failed to fetch")
    /\ UNCHANGED <<cbVars, rq, env, ds, served, hist, br>>

\* part_002 193-205: response.json() of a response that is not ok settles
JsonSettles(j) ==
    /\ ui.hc = "json"
    /\ ui' = IF j.parses
             THEN catchAndFinally(ui, Or(j.error, "Token exchange failed"))
             ELSE catchAndFinally(ui, "Unexpected token")
    /\ UNCHANGED <<cbVars, rq, env, ds, served, hist, br>>

\* the page is loaded with or without code and error, possibly with a marker
\* left by an earlier load that never finished
InitUi ==
    /\ now = 0
    /\ kv = [c \in Codes |-> 0]
    /\ cb = [r \in 1..MaxCb |-> IdleCb]
    /\ rq = IdleRq
    /\ env = "https://your-org.scalekit.com"
    /\ ds = IdleDs
    /\ served = [o \in Origins |-> {}]
    /\ hist = NoHist
    /\ br = [i \in 1..MaxBr |-> IdleRq]
    /\ ui \in {[NoUi EXCEPT !.code = c, !.error = e, !.marker = m, !.returnTo = t] :
                 c \in {Absent, Empty, "abc123"}, e \in {Absent, "access_denied"},
                 m \in BOOLEAN, t \in BOOLEAN}

NextUi ==
    \/ RunEffect
    \/ Render
    \/ \E o \in FetchOutcomes : FetchSettles(o)
    \/ \E j \in JsonOutcomes : JsonSettles(j)

InitAuth ==
    /\ now = AuthClock
    /\ kv = [c \in Codes |-> 0]
    /\ cb = [r \in 1..MaxCb |-> IdleCb]
    /\ rq = IdleRq
    /\ InitAux

\* a request arrives at a session-gated route (index.ts 108, TodoAPI)
SessionRequest(origin, path, cookie) ==
    /\ rq.pc = "idle"
    /\ path \in SessionRoutes
    /\ rq' = scalekitSessionAuthMiddleware(
                [IdleRq EXCEPT !.gate = "session", !.origin = origin, !.cookie = cookie])
    /\ UNCHANGED <<cbVars, auxVars>>

\* a request arrives at a bearer-gated route (index.ts 114-119)
BearerRequest(origin, path, header) ==
    /\ rq.pc = "idle"
    /\ path \in BearerRoutes
    /\ rq' = scalekitBearerTokenAuthMiddleware(
                [IdleRq EXCEPT !.gate = "bearer", !.origin = origin, !.header = header])
    /\ UNCHANGED <<cbVars, auxVars>>

\* auth.ts 84-115: the session-verification POST settles
VerifyResponse(resp) ==
    /\ rq.pc = "verify"
    /\ rq' = Settle([rq EXCEPT !.resp = resp], verifySession(resp))
    /\ UNCHANGED <<cbVars, auxVars>>

\* auth.ts 156-178: the user-info GET settles
UserinfoResponse(resp) ==
    /\ rq.pc = "userinfo"
    /\ rq' = Settle([rq EXCEPT !.resp = resp], userinfo(resp))
    /\ UNCHANGED <<cbVars, auxVars>>

\* await next(): the route's handler runs with the identity the middleware
\* left for it (c.var.userID, executionCtx.props)
Handler ==
    /\ rq.pc = "next"
    /\ rq' = [rq EXCEPT !.pc = "done", !.status = 200, !.handlerRan = TRUE,
                        !.seen = [userID |-> rq.userID, claims |-> rq.props.claims,
                                  accessToken |-> rq.props.accessToken]]
    /\ UNCHANGED <<cbVars, auxVars>>

\* the response has been sent; the invocation ends and keeps no state
Respond ==
    /\ rq.pc = "done"
    /\ rq' = IdleRq
    /\ UNCHANGED <<cbVars, auxVars>>

\* Logout answering without the Set-Cookie that clears the session
LogoutKeepsCookie(cookie) ==
    /\ rq.pc \in {"idle", "done"}
    /\ rq' = [IdleRq EXCEPT !.pc = "done", !.gate = "logout", !.cookie = cookie,
                            !.status = 200, !.success = TRUE]
    /\ hist' = IF rq.pc = "done" /\ rq.gate = "session" /\ rq.result.kind = "return"
               THEN [loggedOut |-> TRUE, token |-> rq.token, resp |-> rq.resp,
                     claims |-> rq.result.claims]
               ELSE hist
    /\ UNCHANGED <<cbVars, env, ds, served, br, ui>>

\* POST /api/auth/logout (index.ts 100-105), sent by a browser at any time or
\* right after the answer to its last request; hist keeps that request when
\* it was an admitted session
Logout(cookie) ==
    /\ rq.pc \in {"idle", "done"}
    /\ rq' = [IdleRq EXCEPT !.pc = "done", !.gate = "logout", !.cookie = cookie,
                            !.status = 200, !.success = TRUE, !.deleteCookie = TRUE]
    /\ hist' = IF rq.pc = "done" /\ rq.gate = "session" /\ rq.result.kind = "return"
               THEN [loggedOut |-> TRUE, token |-> rq.token, resp |-> rq.resp,
                     claims |-> rq.result.claims]
               ELSE hist
    /\ UNCHANGED <<cbVars, env, ds, served, br, ui>>

\* the cookies of the sessions that are logged out: none, a session id, a
\* JWT with a subject, an opaque token
LogoutCookies ==
    {NoCookieSent,
     [present |-> TRUE, value |-> <<SesDigits>>],
     [present |-> TRUE,
      value |-> <<Word, Seg("b64", "object", [NoData EXCEPT !.sub = "jwt-sub"]), Word>>],
     [present |-> TRUE, value |-> <<Word>>]}

LogoutVerifyResps ==
    {RespOf("status", NoData),
     RespOf("ok", [NoData EXCEPT !.user_id = "ses-user_id"]),
     RespOf("ok", [NoData EXCEPT !.user_dot_id = "ses-user.id"])}

LogoutUserinfoResps ==
    {RespOf("status", NoData),
     RespOf("ok", [NoData EXCEPT !.sub = "ui-sub"]),
     RespOf("ok", [NoData EXCEPT !.email = "ui@email"])}

\* markers left by earlier callbacks may be in the store
InitLogout ==
    /\ now = AuthClock
    /\ kv \in [Codes -> {0, AuthClock + MarkerTtl}]
    /\ cb = [r \in 1..MaxCb |-> IdleCb]
    /\ rq = IdleRq
    /\ InitAux

NextLogout ==
    \/ rq.pc = "idle" /\ \E o \in Origins, p \in SessionRoutes, k \in LogoutCookies :
            SessionRequest(o, p, k)
    \/ \E resp \in LogoutVerifyResps : VerifyResponse(resp)
    \/ \E resp \in LogoutUserinfoResps : UserinfoResponse(resp)
    \/ Handler
    \/ Respond
    \/ \E k \in LogoutCookies : Logout(k)

\* credentials of the requests that run next to a code exchange: a session
\* id, a JWT with a subject, one without, an expired one, an opaque token
CallsTokens ==
    {<<SesDigits>>, <<Word>>,
     <<Word, Seg("b64", "object", [NoData EXCEPT !.sub = "jwt-sub"]), Word>>,
     <<Word, Seg("b64", "object", NoData), Word>>,
     <<Word, Seg("b64", "object", [NoData EXCEPT !.exp = <<AuthClock - 1>>,
                                               !.sub = "jwt-sub"]), Word>>,
     <<Word, Seg("b64", "throws", NoData), Word>>}

CallsVerifyResps == LogoutVerifyResps \cup {RespOf("throw", NoData)}
CallsUserinfoResps == LogoutUserinfoResps \cup {RespOf("throw", NoData)}

\* one code exchange and the gated requests, each with its outbound calls
NextCalls ==
    \/ \E b \in CallbackBodies : CallbackStart(1, b)
    \/ CallbackGet(1)
    \/ CallbackPut(1)
    \/ \E d \in DiscoveryResps : CallbackDiscovery(1, d)
    \/ \E t \in TokenResps : CallbackToken(1, t)
    \/ rq.pc = "idle" /\ \E t \in CallsTokens :
            SessionRequest("https://todo.example", "/api/auth/validate",
                           [present |-> TRUE, value |-> t])
    \/ rq.pc = "idle" /\ \E t \in CallsTokens :
            BearerRequest("https://todo.example", "/mcp",
                          [present |-> TRUE, prefix |-> "Bearer ", rest |-> t])
    \/ \E resp \in CallsVerifyResps : VerifyResponse(resp)
    \/ \E resp \in CallsUserinfoResps : UserinfoResponse(resp)
    \/ Handler
    \/ Respond

\* ------------------------------------------ concurrent bearer requests
\* c.executionCtx is the ExecutionContext of the invocation that handles the
\* request: br[i].props is the props of request i's own context.

\* the tokens of different requests differ: an opaque token of i + 3
\* segments, and for the first two requests also JWTs and a session id
BearerTokens(i) ==
    {[k \in 1..(i + 3) |-> Word]}
    \cup (IF i = 1
          THEN {<<Word, Seg("b64", "object", [NoData EXCEPT !.sub = "jwt-sub"]), Word>>,
                <<Word, Seg("b64", "object", NoData), Word>>}
          ELSE IF i = 2
          THEN {<<SesDigits>>,
                <<Word, Seg("b64", "object", [NoData EXCEPT !.user_id = "jwt-user_id"]),
                  Word>>}
          ELSE {})

BearerVerifyResps ==
    {RespOf("status", NoData), RespOf("ok", [NoData EXCEPT !.user_id = "ses-user_id"])}

BearerUserinfoResps ==
    {RespOf("status", NoData),
     RespOf("ok", [NoData EXCEPT !.sub = "ui-sub"]),
     RespOf("ok", [NoData EXCEPT !.email = "ui@email"])}

\* auth.ts 36-54: request i arrives at /mcp or /sse/*
BearerArrive(i, token) ==
    /\ br[i].pc = "idle"
    /\ br' = [br EXCEPT ![i] = scalekitBearerTokenAuthMiddleware(
                [IdleRq EXCEPT !.gate = "bearer", !.origin = "https://todo.example",
                               !.header = [present |-> TRUE, prefix |-> "Bearer ",
                                           rest |-> token]])]
    /\ UNCHANGED <<cbVars, rq, env, ds, served, hist, ui>>

\* auth.ts 84-115, 55-65: the session-verification POST of request i settles
BearerVerify(i, resp) ==
    /\ br[i].pc = "verify"
    /\ br' = [br EXCEPT ![i] = Settle([@ EXCEPT !.resp = resp], verifySession(resp))]
    /\ UNCHANGED <<cbVars, rq, env, ds, served, hist, ui>>

\* auth.ts 156-178, 55-65: the user-info GET of request i settles
BearerUserinfo(i, resp) ==
    /\ br[i].pc = "userinfo"
    /\ br' = [br EXCEPT ![i] = Settle([@ EXCEPT !.resp = resp], userinfo(resp))]
    /\ UNCHANGED <<cbVars, rq, env, ds, served, hist, ui>>

\* the protocol handler reading the props of one context for every request
BearerHandlerSharedProps(i) ==
    /\ br[i].pc = "next"
    /\ br' = [br EXCEPT ![i] =
                [@ EXCEPT !.pc = "done", !.status = 200, !.handlerRan = TRUE,
                          !.seen = [userID |-> br[i].userID,
                                    claims |-> br[1].props.claims,
                                    accessToken |-> br[1].props.accessToken]]]
    /\ UNCHANGED <<cbVars, rq, env, ds, served, hist, ui>>

\* auth.ts 67, index.ts 115-119: await next(); the MCP handler of request i
\* runs with the props of its execution context
BearerHandler(i) ==
    /\ br[i].pc = "next"
    /\ br' = [br EXCEPT ![i] =
                [@ EXCEPT !.pc = "done", !.status = 200, !.handlerRan = TRUE,
                          !.seen = [userID |-> br[i].userID,
                                    claims |-> br[i].props.claims,
                                    accessToken |-> br[i].props.accessToken]]]
    /\ UNCHANGED <<cbVars, rq, env, ds, served, hist, ui>>

\* the response of request i has been sent
BearerRespond(i) ==
    /\ br[i].pc = "done"
    /\ br' = [br EXCEPT ![i] = IdleRq]
    /\ UNCHANGED <<cbVars, rq, env, ds, served, hist, ui>>

NextBearer ==
    \/ \E i \in 1..MaxBr : \E t \in BearerTokens(i) : BearerArrive(i, t)
    \/ \E i \in 1..MaxBr, resp \in BearerVerifyResps : BearerVerify(i, resp)
    \/ \E i \in 1..MaxBr, resp \in BearerUserinfoResps : BearerUserinfo(i, resp)
    \/ \E i \in 1..MaxBr : BearerHandler(i)
    \/ \E i \in 1..MaxBr : BearerRespond(i)

NextAuth ==
    \/ rq.pc = "idle" /\ \E o \in Origins, p \in SessionRoutes, k \in Cookies :
            SessionRequest(o, p, k)
    \/ rq.pc = "idle" /\ \E o \in Origins, p \in BearerRoutes, h \in Headers :
            BearerRequest(o, p, h)
    \/ \E resp \in VerifyResps : VerifyResponse(resp)
    \/ \E resp \in UserinfoResps : UserinfoResponse(resp)
    \/ Handler
    \/ Respond

NextCb ==
    \/ Tick
    \/ \E r \in 1..MaxCb, b \in CallbackBodies : CallbackStart(r, b)
    \/ \E r \in 1..MaxCb : CallbackGet(r)
    \/ \E r \in 1..MaxCb : CallbackPut(r)
    \/ \E r \in 1..MaxCb, d \in SomeDiscoveryResps : CallbackDiscovery(r, d)
    \/ \E r \in 1..MaxCb, t \in TokenResps : CallbackToken(r, t)

vars == <<now, kv, cb, rq, env, ds, served, hist, br, ui>>

\* the code exchange: concurrent callback requests, the marker store, time
Init == InitCb /\ rq = IdleRq /\ InitAux
Next == NextCb
Spec == Init /\ [][Next]_vars

\* the code exchange of one request, over every token response
NextExchange ==
    \/ Tick
    \/ \E b \in CallbackBodies : CallbackStart(1, b)
    \/ CallbackGet(1)
    \/ CallbackPut(1)
    \/ \E d \in DiscoveryResps : CallbackDiscovery(1, d)
    \/ \E t \in AllTokenResps : CallbackToken(1, t)

SpecExchange == Init /\ [][NextExchange]_vars

\* the gated routes: one request at a time through a middleware
SpecAuth == InitAuth /\ [][NextAuth]_vars

\* the outbound calls of a code exchange and of the gated requests
SpecCalls == InitAuth /\ [][NextCalls]_vars

\* bearer-gated requests handled concurrently
SpecBearer == InitAuth /\ [][NextBearer]_vars

\* the Authenticate component of one page load
SpecUi == InitUi /\ [][NextUi]_vars

\* sessions and logouts
SpecLogout == InitLogout /\ [][NextLogout]_vars

\* the metadata routes under each configuration
SpecDiscovery == InitDiscovery /\ [][NextDiscovery]_vars

\* ================================================================ claims

AlreadyUsed == <<"Authorization code already used">>

\* C1: when a callback request for a code has been handled to completion and
\* wrote the marker, a later request with the same code whose marker read is
\* served less than 300 seconds after that write is answered 400
\* "Authorization code already used", sets no cookie and makes no outbound
\* call.
C1_ReplayWithinTtlRejected ==
    [][\A r1, r2 \in 1..MaxCb :
        (/\ cb[r2].pc = "get" /\ cb'[r2].pc # "get"
         /\ r1 \in cb[r2].prior
         /\ cb[r1].code = cb[r2].code
         /\ cb[r1].putAt >= 0
         /\ now - cb[r1].putAt < MarkerTtl)
        => (/\ cb'[r2].pc = "done"
            /\ cb'[r2].status = 400
            /\ cb'[r2].error = AlreadyUsed
            /\ ~cb'[r2].cookie.set
            /\ cb'[r2].calls = <<>>)]_vars

C1_Witness ==
    \E r1, r2 \in 1..MaxCb :
        /\ cb[r1].status = 200 /\ cb[r1].cookie.set
        /\ r1 \in cb[r2].prior
        /\ cb[r1].code = cb[r2].code
        /\ cb[r2].pc = "done" /\ cb[r2].error = AlreadyUsed
        /\ now > cb[r1].putAt /\ now - cb[r1].putAt < MarkerTtl

\* C2: of the callback requests that carry the same code and are handled
\* concurrently (neither had completed when the other started), at most one
\* returns 200 and sets the session cookie.
C2_AtMostOneConcurrentSuccess ==
    \A r1, r2 \in 1..MaxCb :
        (/\ r1 # r2
         /\ cb[r1].code = cb[r2].code
         /\ r1 \notin cb[r2].prior /\ r2 \notin cb[r1].prior
         /\ cb[r1].status = 200 /\ cb[r1].cookie.set)
        => ~(cb[r2].status = 200 /\ cb[r2].cookie.set)

\* the credential validated is a three-segment one whose middle segment
\* decodes to a JSON object
IsJwtWithPayload ==
    /\ rq.validations > 0
    /\ rq.token # <<SesDigits>>
    /\ Len(rq.token) = 3
    /\ rq.token[2].dec = "object"

\* C3: a three-segment credential whose payload has a numeric exp below the
\* current time (0 included) fails with 'Token has expired' and the user-info
\* endpoint is never called.
C3_PastExpAlwaysExpired ==
    (/\ IsJwtWithPayload
     /\ Len(rq.token[2].payload.exp) = 1
     /\ rq.token[2].payload.exp[1] < now)
    => (/\ rq.result = Thrown(<<"Token has expired">>)
        /\ rq.calls = <<>>)

\* some candidate of a response body holds a non-empty value
HasAny(data, fields) == \E f \in fields : data[f] \notin {Absent, Empty}

\* C4: a credential of the form ses_<digits> is resolved by the
\* session-verification POST alone: it is the only outbound call, JWT
\* decoding is not attempted, and a network failure, a non-2xx response or a
\* response without a subject ends the validation in failure.
C4_SessionIdOnlySessionVerify ==
    (rq.validations > 0 /\ rq.token = <<SesDigits>>)
    => (/\ rq.pc \in {"verify", "next", "done"}
        /\ rq.calls = <<[to |-> "verify", credential |-> <<SesDigits>>]>>
        /\ ~rq.jwtTried
        /\ (/\ rq.pc # "verify"
            /\ \/ rq.resp.kind # "ok"
               \/ ~HasAny(rq.resp.data, {"user_id", "user_dot_id", "sub", "userId",
                                          "session_dot_user_id"}))
           => (/\ rq.result.kind = "throw"
               /\ rq.pc = "done" /\ rq.status = 401 /\ ~rq.handlerRan))

C4_Witness ==
    /\ rq.token = <<SesDigits>>
    /\ rq.pc = "done"
    /\ rq.resp.kind = "ok"
    /\ rq.result.kind = "throw"
    /\ rq.calls = <<[to |-> "verify", credential |-> <<SesDigits>>]>>

\* the payload is not expired and none of sub, user_id, userId, email holds
\* a non-empty value
IsJwtWithoutSubject ==
    /\ IsJwtWithPayload
    /\ LET p == rq.token[2].payload
       IN /\ ~(Len(p.exp) = 1 /\ p.exp[1] < now)
          /\ ~HasAny(p, {"sub", "user_id", "userId", "email"})

\* C5: a three-segment credential whose payload is not expired and has no
\* subject claim goes on to the user-info endpoint with the credential as
\* bearer auth, and the validation succeeds exactly when that endpoint
\* answers 2xx with a subject.
C5_NoSubjectFallsThrough ==
    IsJwtWithoutSubject
    => (/\ rq.pc \in {"userinfo", "next", "done"}
        /\ rq.calls = <<[to |-> "userinfo", credential |-> rq.token]>>
        /\ rq.pc # "userinfo"
           => /\ rq.result.kind = "return"
                 <=> (/\ rq.resp.kind = "ok"
                      /\ HasAny(rq.resp.data, {"sub", "user_id", "id", "email"}))
              /\ rq.result.kind # "return" => rq.pc = "done" /\ rq.status = 401)

C5_Witness ==
    /\ IsJwtWithoutSubject
    /\ rq.result.kind = "return"
    /\ rq.resp.kind = "ok"
    /\ rq.handlerRan

\* C6: whenever the validator returns successfully, the returned claim set
\* has a non-empty sub.
C6_SuccessHasSubject ==
    rq.result.kind = "return" => rq.result.claims.sub \notin {Absent, Empty}

NoBearerPresented == ~rq.header.present \/ rq.header.prefix # "Bearer "

\* C7: a request to a bearer-gated route without an Authorization header
\* starting with 'Bearer ' is answered 401 with a WWW-Authenticate header
\* whose resource_metadata is the request's own origin followed by the
\* discovery path; nothing is validated and the handler does not run.
C7_MissingBearerChallenged ==
    (rq.gate = "bearer" /\ NoBearerPresented)
    => (/\ rq.pc = "done"
        /\ rq.status = 401
        /\ rq.wwwAuth = <<"resource_metadata=", rq.origin,
                           "/.well-known/oauth-protected-resource">>
        /\ rq.validations = 0 /\ rq.calls = <<>>
        /\ ~rq.handlerRan /\ ~rq.props.set)

C7_Witness ==
    /\ rq.gate = "bearer"
    /\ rq.header.present /\ rq.header.prefix = "Basic dX"
    /\ rq.origin = "http://localhost:3000"
    /\ rq.status = 401

\* C8: a request to a bearer-gated route whose bearer token fails validation
\* is answered 401 with the same WWW-Authenticate header as a request
\* without a token.
C8_InvalidBearerChallenged ==
    (/\ rq.gate = "bearer"
     /\ ~NoBearerPresented
     /\ rq.result.kind = "throw")
    => (/\ rq.status = 401
        /\ rq.wwwAuth = <<"resource_metadata=", rq.origin,
                           "/.well-known/oauth-protected-resource">>)

NoSessionCookie == ~rq.cookie.present \/ rq.cookie.value = <<>>

\* C9: a request to a session-gated route is answered 401 'Unauthenticated'
\* without WWW-Authenticate and without touching the cookie when the cookie
\* is missing (nothing is validated then) and when it fails validation; the
\* two responses are the same.
C9_SessionDenialUniform ==
    (/\ rq.gate = "session"
     /\ NoSessionCookie \/ rq.result.kind = "throw")
    => (/\ rq.pc = "done"
        /\ rq.status = 401 /\ rq.message = "Unauthenticated"
        /\ rq.wwwAuth = <<>> /\ ~rq.setCookie
        /\ ~rq.handlerRan
        /\ NoSessionCookie => rq.validations = 0 /\ rq.calls = <<>>)

C9_Witness ==
    /\ rq.gate = "session"
    /\ rq.cookie.present
    /\ rq.result = Thrown(<<"Token has expired">>)
    /\ rq.status = 401

\* C10: a gated handler runs only after the validator has returned
\* successfully for the credential of the same request, and it sees the
\* subject (session routes) or the claims and the raw token (bearer routes)
\* of that validation.
C10_HandlerSeesValidatedIdentity ==
    rq.handlerRan
    => (/\ rq.result.kind = "return"
        /\ rq.validations = 1
        /\ rq.gate = "session"
           => /\ rq.token = rq.cookie.value
              /\ rq.seen.userID = rq.result.claims.sub
        /\ rq.gate = "bearer"
           => /\ rq.token = rq.header.rest
              /\ rq.seen.claims = rq.result.claims
              /\ rq.seen.accessToken = rq.header.rest)

C10_Witness ==
    /\ rq.handlerRan
    /\ rq.gate = "bearer"
    /\ rq.calls = <<[to |-> "userinfo", credential |-> <<Word>>]>>
    /\ rq.seen.accessToken = <<Word>>
    /\ rq.seen.claims.sub = "ui-sub"

\* C11: once 300 seconds have passed since the last marker for a code was
\* written, a new callback request with that code passes the local check,
\* writes a fresh marker and goes on to the token exchange.
C11_ExpiredMarkerNotBlocking ==
    [][\A r2 \in 1..MaxCb :
        LET writers == {r1 \in 1..MaxCb \ {r2} :
                            cb[r1].code = cb[r2].code /\ cb[r1].putAt >= 0}
            expired == /\ writers # {}
                       /\ \A r1 \in writers : now - cb[r1].putAt >= MarkerTtl
        IN /\ (cb[r2].pc = "get" /\ cb'[r2].pc # "get" /\ expired)
              => cb'[r2].pc = "put"
           /\ (cb[r2].pc = "put" /\ cb'[r2].pc # "put" /\ expired)
              => /\ cb'[r2].pc = "disc"
                 /\ cb'[r2].putAt = now
                 /\ kv'[cb[r2].code] = now + MarkerTtl
                 /\ cb'[r2].calls = <<"discovery">>
           /\ (cb[r2].pc = "disc" /\ cb'[r2].pc # "disc" /\ cb[r2].putAt >= 0)
              => /\ cb'[r2].pc = "tok"
                 /\ cb'[r2].calls = <<"discovery", "token">>]_vars

C11_Witness ==
    \E r1, r2 \in 1..MaxCb :
        /\ r1 \in cb[r2].prior
        /\ cb[r1].code = cb[r2].code
        /\ cb[r1].putAt >= 0
        /\ cb[r2].putAt - cb[r1].putAt >= MarkerTtl
        /\ cb[r2].pc = "tok"
        /\ kv[cb[r2].code] = cb[r2].putAt + MarkerTtl

\* the first of the values that is present
RECURSIVE FirstPresent(_)
FirstPresent(vals) ==
    IF vals = <<>> THEN Absent
    ELSE IF Head(vals) \notin {Absent, Empty} THEN Head(vals)
    ELSE FirstPresent(Tail(vals))

AnswersToken(r) == r.pc = "done" /\ r.resp.kind = "ok"

\* C14 as stated: the session cookie holds the first present of session_id,
\* session_token, access_token, id_token of the token response; with none of
\* them the exchange fails and no cookie is set.
C14_CookieIsFirstByPriority ==
    \A r \in 1..MaxCb :
        AnswersToken(cb[r])
        => LET d == cb[r].resp.data
               first == FirstPresent(<<d.session_id, d.session_token,
                                       d.access_token, d.id_token>>)
           IN IF first = Absent
              THEN cb[r].status = 400 /\ ~cb[r].cookie.set
              ELSE /\ cb[r].status = 200
                   /\ cb[r].cookie.set /\ cb[r].cookie.value = first

\* C14 amended: the session cookie holds the id_token when the response has
\* one, and otherwise the first present of session_id, session_token,
\* access_token; with none of the four the exchange fails and no cookie is
\* set.
C14_CookieIsIdTokenFirst ==
    \A r \in 1..MaxCb :
        AnswersToken(cb[r])
        => LET d == cb[r].resp.data
               first == FirstPresent(<<d.id_token, d.session_id, d.session_token,
                                       d.access_token>>)
           IN IF first = Absent
              THEN cb[r].status = 400 /\ ~cb[r].cookie.set
              ELSE /\ cb[r].status = 200
                   /\ cb[r].cookie.set /\ cb[r].cookie.value = first

C14_Witness ==
    /\ AnswersToken(cb[1])
    /\ cb[1].resp.data.session_id = "sid"
    /\ cb[1].resp.data.access_token = "atok"
    /\ cb[1].resp.data.id_token = "idtok"
    /\ cb[1].cookie.value = "idtok"

\* C15: on a successful exchange the cookie's max-age is the expires_in of
\* the token response when it has one, and 604800 seconds otherwise.
C15_MaxAgeIsExpiryOrSevenDays ==
    \A r \in 1..MaxCb :
        (cb[r].pc = "done" /\ cb[r].status = 200)
        => cb[r].cookie.maxAge =
              IF Len(cb[r].resp.data.expires_in) = 1
              THEN cb[r].resp.data.expires_in[1]
              ELSE CookieDefaultMaxAge

HasNoToken(d) ==
    FirstPresent(<<d.session_id, d.session_token, d.access_token, d.id_token>>) = Absent

\* C16 as stated: every failure on the exchange path, the discovery fetch's
\* network error included, ends the request with 400, an error message and
\* no cookie.
C16_EveryFailureIs400 ==
    [][\A r \in 1..MaxCb :
        (/\ cb[r].pc = "tok" /\ cb'[r].pc = "done"
         /\ \/ cb[r].dresp.kind = "throw"
            \/ cb'[r].resp.kind \in {"throw", "status"}
            \/ cb'[r].resp.kind = "ok" /\ HasNoToken(cb'[r].resp.data))
        => (/\ cb'[r].status = 400
            /\ cb'[r].error # <<>>
            /\ ~cb'[r].cookie.set)]_vars

\* C16 amended: every failure of the request body or of the grant request
\* (network error, non-2xx response, response without any token) ends the
\* request with 400 and that failure's message and sets no cookie; the cookie
\* is set exactly when the answer is 200.
C16_ExchangeFailureIs400 ==
    \A r \in 1..MaxCb :
        cb[r].pc = "done"
        => (/\ cb[r].status \in {200, 400}
            /\ cb[r].cookie.set <=> cb[r].status = 200
            /\ cb[r].status = 400 => cb[r].error # <<>> /\ cb[r].body = NoBody
            /\ cb[r].resp.kind = "throw"
               => cb[r].status = 400 /\ cb[r].error = <<"fetch failed">>
            /\ cb[r].resp.kind = "status"
               => /\ cb[r].status = 400
                  /\ \/ /\ Len(cb[r].error) = 2
                        /\ cb[r].error[1] = "Token exchange failed: "
                     \/ /\ cb[r].resp.body.shape = "null"
                        /\ Len(cb[r].error) = 1
            /\ (cb[r].resp.kind = "ok" /\ HasNoToken(cb[r].resp.data))
               => /\ cb[r].status = 400
                  /\ cb[r].error =
                       <<"Token exchange failed: No token or session ID in response">>
            /\ (cb[r].resp.kind = "none" /\ cb[r].code = Absent)
               => /\ cb[r].status = 400
                  /\ cb[r].error \in {<<"Unexpected end of JSON input">>,
                                      <<"Cannot destructure property 'code' of null">>,
                                      <<"Authorization code is required">>})

C16_Witness ==
    /\ cb[1].pc = "done"
    /\ cb[1].resp.kind = "status"
    /\ cb[1].resp.body.error_description = Absent
    /\ cb[1].resp.body.error = "invalid_grant"
    /\ cb[1].status = 400
    /\ cb[1].error = <<"Token exchange failed: ", "invalid_grant">>

\* C19: the marker is in the store before the exchange starts and no
\* operation removes it: after a callback request whose exchange failed, a
\* retry with the same code within 300 seconds is answered 'Authorization
\* code already used' without any outbound call.
C19_MarkerOutlivesFailedExchange ==
    [][/\ \A c \in Codes : kv'[c] >= kv[c]
       /\ \A r \in 1..MaxCb :
            cb'[r].calls # <<>>
            => /\ cb'[r].putAt >= 0
               /\ kv'[cb'[r].code] >= cb'[r].putAt + MarkerTtl
       /\ \A r1, r2 \in 1..MaxCb :
            (/\ cb[r2].pc = "get" /\ cb'[r2].pc # "get"
             /\ r1 \in cb[r2].prior
             /\ cb[r1].code = cb[r2].code
             /\ cb[r1].status = 400 /\ cb[r1].resp.kind # "none"
             /\ now - cb[r1].putAt < MarkerTtl)
            => (/\ cb'[r2].pc = "done"
                /\ cb'[r2].error = AlreadyUsed
                /\ cb'[r2].calls = <<>>)]_vars

C19_Witness ==
    \E r1, r2 \in 1..MaxCb :
        /\ r1 \in cb[r2].prior
        /\ cb[r1].code = cb[r2].code
        /\ cb[r1].status = 400 /\ cb[r1].resp.kind = "throw"
        /\ kv[cb[r1].code] > now
        /\ cb[r2].pc = "done" /\ cb[r2].error = AlreadyUsed
        /\ cb[r2].calls = <<>>

\* C20: a request that has read the store and found no marker is not checked
\* again: whatever the other requests write, it writes its marker, fetches
\* the discovery document and sends its grant request, and it succeeds
\* exactly when the token endpoint answers with a token; two requests with
\* the same code can both be in that position.
C20_NoRecheckAfterRead ==
    [][\A r \in 1..MaxCb :
        /\ cb[r].pc = "put" => cb'[r].pc \in {"put", "disc"}
        /\ cb[r].pc = "disc" => cb'[r].pc \in {"disc", "tok"}
        /\ cb'[r].pc = "tok" => cb'[r].calls = <<"discovery", "token">>
        /\ (cb[r].pc = "tok" /\ cb'[r].pc = "done")
           => (cb'[r].status = 200
               <=> (cb'[r].resp.kind = "ok" /\ ~HasNoToken(cb'[r].resp.data)))]_vars

\* both requests read before either wrote (a later read at the same time
\* would have found the marker) and both have sent the grant request
C20_Witness ==
    \E r1, r2 \in 1..MaxCb :
        /\ r1 # r2
        /\ cb[r1].code = cb[r2].code
        /\ cb[r1].pc = "tok" /\ cb[r2].pc = "tok"
        /\ cb[r1].putAt = cb[r2].putAt
        /\ cb[r1].calls = <<"discovery", "token">>
        /\ cb[r2].calls = <<"discovery", "token">>

\* C12: the authorization_servers entry of the protected-resource document
\* and the issuer of the authorization-server document are both the
\* configured base URL (SCALEKIT_ENVIRONMENT_URL), or built on it.
C12_EntriesFollowConfiguration ==
    /\ (ds.pc = "done" /\ ds.route = "protected-resource")
       => \A i \in 1..Len(ds.pr.authorization_servers) :
              ds.pr.authorization_servers[i][1] = env
    /\ (ds.pc = "done" /\ ds.route = "authorization-server")
       => ds.as.issuer = env

\* C13: for one origin the protected-resource route answers the bare path,
\* /mcp and /sse with the same document, whose resource is the request's
\* origin, whose bearer_methods_supported is ["header"] and whose
\* scopes_supported is empty, whatever credential the request carries and
\* whatever was requested before.
C13_ProtectedResourceUniform ==
    /\ (ds.pc = "done" /\ ds.route = "protected-resource")
       => /\ ds.status = 200
          /\ ds.pr.resource = ds.origin
          /\ ds.pr.bearer_methods_supported = <<"header">>
          /\ ds.pr.scopes_supported = <<>>
          /\ \A p \in served[ds.origin] : p.doc = ds.pr
    /\ \A o \in Origins : \A p, q \in served[o] : p.doc = q.doc

C13_Witness ==
    \E o \in Origins :
        /\ {p.transport : p \in served[o]} = {Absent, "mcp", "sse"}
        /\ served[IF o = "https://todo.example" THEN "http://localhost:3000"
                  ELSE "https://todo.example"] # {}
        /\ ds.pc = "done" /\ ds.route = "protected-resource"
        /\ ds.origin = o /\ ds.transport = "sse" /\ ds.credential = "none"

\* C18: the sub of the claim set the validator returns is the first non-empty
\* candidate in the strategy's priority order: session verification user_id,
\* user.id, sub, userId, session.user_id; JWT sub, user_id, userId, email;
\* user-info sub, user_id, id, email.
C18_SubIsFirstCandidate ==
    rq.result.kind = "return"
    => rq.result.claims.sub =
          IF rq.token = <<SesDigits>>
          THEN LET d == rq.resp.data
               IN FirstPresent(<<d.user_id, d.user_dot_id, d.sub, d.userId,
                                 d.session_dot_user_id>>)
          ELSE IF rq.resp.kind = "ok"
          THEN LET d == rq.resp.data
               IN FirstPresent(<<d.sub, d.user_id, d.id, d.email>>)
          ELSE LET d == rq.token[2].payload
               IN FirstPresent(<<d.sub, d.user_id, d.userId, d.email>>)

\* C17: the logout route answers 200 {success: true} and clears the session
\* cookie whatever cookie the request carries, calls nothing and leaves the
\* marker store as it was; a token that was admitted before the logout is
\* admitted again afterwards, with the same identity.
C17_LogoutOnlyClearsCookie ==
    [][/\ rq'.gate = "logout"
          => /\ rq'.pc = "done" /\ rq'.status = 200
             /\ rq'.success /\ rq'.deleteCookie
             /\ rq'.calls = <<>> /\ rq'.validations = 0
             /\ kv' = kv /\ cb' = cb /\ now' = now
       /\ (/\ hist'.loggedOut
           /\ rq'.gate = "session" /\ rq'.pc \in {"next", "done"}
           /\ rq'.token = hist'.token /\ rq'.resp = hist'.resp)
          => /\ rq'.result = Returned(hist'.claims)
             /\ rq'.userID = hist'.claims.sub
             /\ rq'.pc = "done" => rq'.status = 200 /\ rq'.handlerRan]_vars

C17_Witness ==
    /\ hist.loggedOut
    /\ \E c \in Codes : kv[c] > now
    /\ rq.gate = "session" /\ rq.pc = "done" /\ rq.status = 200
    /\ rq.token = hist.token /\ rq.token = <<SesDigits>>
    /\ rq.userID = hist.claims.sub

\* the credential has three segments and its JWT stage fails for a reason
\* other than a past exp: the payload segment does not decode, or decodes to
\* something without a subject claim
JwtStageFailsNotExpiry ==
    /\ rq.validations > 0
    /\ Len(rq.token) = 3
    /\ rq.token # <<SesDigits>>
    /\ LET part == rq.token[2]
       IN \/ part.dec \in {"throws", "throws_expired", "null", "scalar"}
          \/ /\ part.dec = "object"
             /\ Len(part.payload.exp) = 0
             /\ ~HasAny(part.payload, {"sub", "user_id", "userId", "email"})

\* C21: a three-segment credential whose JWT stage fails for any reason
\* other than a past exp goes on to the user-info endpoint, and when that
\* endpoint fails too the validation ends with the final 'Token validation
\* failed' error.
C21_OnlyExpiryAbortsCascade ==
    JwtStageFailsNotExpiry
    => (/\ rq.calls = <<[to |-> "userinfo", credential |-> rq.token]>>
        /\ rq.pc \in {"userinfo", "next", "done"}
        /\ (rq.pc # "userinfo" /\ rq.result.kind # "return")
           => rq.result = Thrown(FinalError))

\* C22: no outbound call is repeated: a validation makes at most one call,
\* the session-verification POST for a ses_<digits> credential, none for a
\* JWT that decodes with a subject, otherwise the user-info GET; a code
\* exchange makes at most one discovery GET followed by at most one
\* token-endpoint POST.
C22_CallsAtMostOnce ==
    /\ rq.validations <= 1
    /\ Len(rq.calls) <= 1
    /\ \A i \in 1..Len(rq.calls) :
          /\ rq.calls[i].credential = rq.token
          /\ rq.calls[i].to = IF rq.token = <<SesDigits>> THEN "verify" ELSE "userinfo"
    /\ (rq.validations = 1 /\ rq.token = <<SesDigits>>) => Len(rq.calls) = 1
    /\ (/\ rq.validations = 1 /\ Len(rq.token) = 3
        /\ rq.token[2].dec = "object"
        /\ HasAny(rq.token[2].payload, {"sub", "user_id", "userId", "email"}))
       => rq.calls = <<>>
    /\ \A r \in 1..MaxCb :
          cb[r].calls \in {<<>>, <<"discovery">>, <<"discovery", "token">>}

C22_Witness ==
    /\ cb[1].pc = "done" /\ cb[1].resp.kind = "throw"
    /\ cb[1].calls = <<"discovery", "token">>
    /\ rq.pc = "done" /\ rq.resp.kind = "throw"
    /\ rq.calls = <<[to |-> "userinfo", credential |-> rq.token]>>
    /\ rq.result = Thrown(FinalError)

\* C23: the grant request goes to the token_endpoint of the discovery
\* document when the discovery fetch answers 2xx with a non-empty one, and to
\* the standard path under the base URL in every other case; whatever the
\* discovery fetch does, the exchange goes on to the grant request.
C23_EndpointPublishedOrDefault ==
    [][\A r \in 1..MaxCb :
        /\ (cb[r].pc = "disc" /\ cb'[r].pc # "disc")
           => /\ cb'[r].pc = "tok"
              /\ cb'[r].dresp \in DiscoveryResps
              /\ cb'[r].calls = <<"discovery", "token">>
        /\ cb'[r].pc = "tok"
           => cb'[r].endpoint =
                 IF /\ cb'[r].dresp.kind = "ok"
                    /\ cb'[r].dresp.token_endpoint \notin {Absent, Empty}
                 THEN cb'[r].dresp.token_endpoint
                 ELSE "env/oauth/token"]_vars

C23_Witness ==
    /\ cb[1].pc = "tok"
    /\ cb[1].dresp.kind = "status"
    /\ cb[1].endpoint = "env/oauth/token"
    /\ cb[1].calls = <<"discovery", "token">>

RepliedNon2xx(r) == r.pc = "done" /\ r.resp.kind = "status"

\* C24 as stated: after a non-2xx token response the failure's message is
\* the body's error_description when the body is JSON with a non-empty one,
\* else its error when non-empty, and otherwise the raw body text.
C24_MessageFallsBackToRawText ==
    \A r \in 1..MaxCb :
        RepliedNon2xx(cb[r])
        => LET b == cb[r].resp.body
           IN cb[r].error =
                <<"Token exchange failed: ",
                  IF b.json /\ b.error_description \notin {Absent, Empty}
                  THEN b.error_description
                  ELSE IF b.json /\ b.error \notin {Absent, Empty} THEN b.error
                  ELSE b.text>>

\* C24 amended: the message is the error_description of a JSON object body
\* when non-empty, else its error when non-empty; for a body that is not JSON
\* it is the raw text when non-empty; for a JSON object without either field,
\* a JSON scalar and an empty body it is the fixed text 'Token exchange
\* failed'; for the JSON value null the failure is the TypeError of reading a
\* property of null.
C24_MessageFallsBackToFixedText ==
    \A r \in 1..MaxCb :
        RepliedNon2xx(cb[r])
        => LET b == cb[r].resp.body
           IN /\ cb[r].status = 400
              /\ cb[r].error =
                   IF b.shape = "null"
                   THEN <<"Cannot read properties of null (reading 'error_description')">>
                   ELSE <<"Token exchange failed: ",
                          IF b.shape = "object" /\ b.error_description \notin {Absent, Empty}
                          THEN b.error_description
                          ELSE IF b.shape = "object" /\ b.error \notin {Absent, Empty}
                          THEN b.error
                          ELSE IF b.shape = "text" /\ b.text # Empty THEN b.text
                          ELSE "Token exchange failed">>

C24_Witness ==
    /\ RepliedNon2xx(cb[1])
    /\ cb[1].resp.body.shape = "object"
    /\ cb[1].resp.body.error_description = Absent
    /\ cb[1].resp.body.error = Absent
    /\ cb[1].error = <<"Token exchange failed: ", "Token exchange failed">>

\* C25: a callback request whose body has no code, missing or empty, is
\* answered 400 'Authorization code is required'; the marker store is neither
\* read nor written, nothing is called and no cookie is set.
C25_MissingCodeRejectedUntouched ==
    [][\A r \in 1..MaxCb :
        (/\ cb[r].pc = "idle" /\ cb'[r].pc # "idle"
         /\ cb'[r].req.parses /\ cb'[r].req.object
         /\ cb'[r].req.code \in {Absent, Empty})
        => (/\ cb'[r].pc = "done"
            /\ cb'[r].status = 400
            /\ cb'[r].error = <<"Authorization code is required">>
            /\ cb'[r].body = NoBody
            /\ ~cb'[r].cookie.set
            /\ cb'[r].calls = <<>>
            /\ cb'[r].putAt = -1
            /\ cb'[r].resp.kind = "none"
            /\ kv' = kv
            /\ \A q \in 1..MaxCb \ {r} : cb'[q] = cb[q])]_vars

\* the request without a code arrives while another one is between its read
\* and its write of the marker
C25_Witness ==
    \E r, q \in 1..MaxCb :
        /\ r # q
        /\ cb[q].pc = "put"
        /\ cb[r].pc = "done"
        /\ cb[r].req.parses /\ cb[r].req.object /\ cb[r].req.code = Empty
        /\ cb[r].error = <<"Authorization code is required">>
        /\ kv = [c \in Codes |-> 0]

\* C26: whatever the interleaving of bearer requests with different tokens,
\* the props each request's handler consumes are the claims and the token of
\* that request's own validation, never those written for another request.
C26_PropsStayWithRequest ==
    /\ \A i \in 1..MaxBr :
          br[i].handlerRan
          => /\ br[i].result.kind = "return"
             /\ br[i].seen.claims = br[i].result.claims
             /\ br[i].seen.accessToken = br[i].header.rest
             /\ br[i].seen.accessToken = br[i].token
             /\ br[i].seen.claims.sub =
                   IF br[i].resp.kind = "ok"
                   THEN FirstPresent(<<br[i].resp.data.sub, br[i].resp.data.user_id,
                                       br[i].resp.data.email>>)
                   ELSE FirstPresent(<<br[i].token[2].payload.sub,
                                       br[i].token[2].payload.user_id>>)
    /\ \A i, j \in 1..MaxBr :
          (i # j /\ br[i].handlerRan /\ br[j].props.set)
          => br[i].seen.accessToken # br[j].props.accessToken

\* request 2 was validated and its props written while request 1 was in
\* flight, and both handlers have run
C26_Witness ==
    /\ br[1].handlerRan /\ br[2].handlerRan
    /\ br[1].seen.claims.sub = "ui-sub"
    /\ br[2].seen.claims.sub = "jwt-user_id"
    /\ br[1].seen.accessToken = <<Word, Word, Word, Word>>

\* C27: however often the effect of one mounted Authenticate runs,
\* handleCallback starts at most once and at most one POST is sent; and once
\* handleCallback has finished, a marker it set has been removed again,
\* whether the response was ok, was not ok, or the fetch threw.
C27_OneCallbackMarkerRemoved ==
    /\ ui.starts <= 1
    /\ ui.posts <= 1
    /\ ui.posts = 1 <=> ui.markerSet
    /\ ui.starts = 1 => ui.ref /\ ui.state.hasProcessed
    /\ (ui.markerSet /\ ui.hc = "done") => ~ui.marker
    /\ (ui.markerSet /\ ui.hc \in {"fetch", "json"}) => ui.marker

C27_Witness ==
    /\ ui.runs >= 3
    /\ ui.closure = ui.state
    /\ ui.starts = 1 /\ ui.posts = 1
    /\ ui.markerSet /\ ~ui.marker
    /\ ui.hc = "done"
    /\ ui.failure = "Authorization code already used"
====
